---------------------------- MODULE Spec2Model ----------------------------
(* Model of the ray/primitive intersection code (src/src/objects.rs) and   *)
(* of the colour recurrence (src/src/ray.rs).                              *)
(*                                                                         *)
(* f64 values are modelled as IEEE-754 classes: a finite value is a sign   *)
(* and a magnitude in units of 1/SCALE (rounded toward zero), and the      *)
(* special values are the infinities, the NaNs and the negative zero.      *)
(* On the integer-coordinate inputs drawn below the finite arithmetic is   *)
(* exact wherever the f64 arithmetic is.                                   *)
EXTENDS Integers, Sequences, FiniteSets, TLC

(***************************************************************************)
(* Bounds of the model.                                                    *)
(***************************************************************************)
\* longest world (number of members) drawn for the hit / bounding_box calls
MaxWorldLen == 2
\* largest depth budget handed to ray_color
MaxDepth == 3

\* resolution of the finite f64 values: 1.0 is SCALE units
SCALE == 1000

VARIABLES
    nanNeg,      \* sign bit of the NaN an invalid f64 operation produces (target dependent)
    world,       \* the WorldType: a sequence of primitives
    ray,         \* the ray of the current call
    tmin, tmax,  \* the query interval of the current call
    call,        \* the last Hittable call made: [op, idx]
    rec,         \* Option<HitRecord> returned by the last hit call
    bbox,        \* Option<AABB> returned by the last bounding_box call
    pc,          \* position of the ray_color evaluation
    budget,      \* the depth budget of the outermost ray_color call
    background,  \* the background colour of the outermost ray_color call
    stack,       \* the frames of the nested ray_color invocations, innermost last
    ret,         \* the colour returned by the invocation that returned last
    bounces,     \* what hit / emit / scatter returned to each invocation, outermost first
    hitCalls,    \* number of world.hit calls made by ray_color
    matCalls,    \* number of material emit / scatter calls made by ray_color
    invocations  \* number of ray_color invocations entered

geomVars == <<world, ray, tmin, tmax, call, rec, bbox>>
colorVars == <<pc, budget, background, stack, ret, bounces, hitCalls, matCalls, invocations>>
vars == <<nanNeg, world, ray, tmin, tmax, call, rec, bbox,
          pc, budget, background, stack, ret, bounces, hitCalls, matCalls, invocations>>

(***************************************************************************)
(* f64                                                                     *)
(***************************************************************************)
Abs(n) == IF n < 0 THEN -n ELSE n

\* the finite f64 of n units (n an integer, +0.0 for n = 0)
F(n) == [c |-> "fin", neg |-> n < 0, m |-> Abs(n)]
\* the f64 of the integer literal i
Lit(i) == F(i * SCALE)
NegZero == [c |-> "fin", neg |-> TRUE, m |-> 0]
PInf == [c |-> "inf", neg |-> FALSE, m |-> 0]
NInf == [c |-> "inf", neg |-> TRUE, m |-> 0]
\* the NaN an invalid operation (0/0, inf-inf, 0*inf, sqrt of a negative) produces
DefaultNaN == [c |-> "nan", neg |-> nanNeg, m |-> 0]

IsNaN(x) == x.c = "nan"
IsInf(x) == x.c = "inf"
IsFinite(x) == x.c = "fin"
IsZero(x) == x.c = "fin" /\ x.m = 0
\* the signed number of units of a finite value
Val(x) == IF x.neg THEN -x.m ELSE x.m

FNeg(x) == [x EXCEPT !.neg = ~x.neg]

FAdd(x, y) ==
    IF IsNaN(x) THEN x
    ELSE IF IsNaN(y) THEN y
    ELSE IF IsInf(x) THEN (IF IsInf(y) /\ y.neg # x.neg THEN DefaultNaN ELSE x)
    ELSE IF IsInf(y) THEN y
    ELSE LET v == Val(x) + Val(y)
         IN IF v = 0 THEN [c |-> "fin", neg |-> x.neg /\ y.neg, m |-> 0] ELSE F(v)

FSub(x, y) == FAdd(x, FNeg(y))

FMul(x, y) ==
    IF IsNaN(x) THEN x
    ELSE IF IsNaN(y) THEN y
    ELSE IF (IsInf(x) /\ IsZero(y)) \/ (IsZero(x) /\ IsInf(y)) THEN DefaultNaN
    ELSE IF IsInf(x) \/ IsInf(y) THEN [c |-> "inf", neg |-> x.neg # y.neg, m |-> 0]
    ELSE [c |-> "fin", neg |-> x.neg # y.neg, m |-> (x.m * y.m) \div SCALE]

FDiv(x, y) ==
    IF IsNaN(x) THEN x
    ELSE IF IsNaN(y) THEN y
    ELSE IF (IsInf(x) /\ IsInf(y)) \/ (IsZero(x) /\ IsZero(y)) THEN DefaultNaN
    ELSE IF IsInf(x) \/ IsZero(y) THEN [c |-> "inf", neg |-> x.neg # y.neg, m |-> 0]
    ELSE IF IsInf(y) THEN [c |-> "fin", neg |-> x.neg # y.neg, m |-> 0]
    ELSE [c |-> "fin", neg |-> x.neg # y.neg, m |-> (x.m * SCALE) \div y.m]

\* floor of the square root of the natural number n, by bisection on lo..hi
RECURSIVE ISqrtIn(_, _, _)
ISqrtIn(n, lo, hi) ==
    IF lo >= hi THEN lo
    ELSE LET mid == (lo + hi + 1) \div 2
         IN IF mid * mid <= n THEN ISqrtIn(n, mid, hi) ELSE ISqrtIn(n, lo, mid - 1)

ISqrt(n) == ISqrtIn(n, 0, IF n < 46340 THEN n ELSE 46340)

FSqrt(x) ==
    IF IsNaN(x) THEN x
    ELSE IF IsZero(x) THEN x
    ELSE IF x.neg THEN DefaultNaN
    ELSE IF IsInf(x) THEN x
    ELSE [c |-> "fin", neg |-> FALSE, m |-> ISqrt(x.m * SCALE)]

\* the position of a non-NaN value on the extended real line, as a pair
\* compared first on the class and then on the units
Rank(x) == IF IsInf(x) THEN (IF x.neg THEN -1 ELSE 1) ELSE 0

\* x < y, x > y, x <= y, x == y of f64: false as soon as one side is NaN
FLt(x, y) ==
    /\ ~IsNaN(x) /\ ~IsNaN(y)
    /\ \/ Rank(x) < Rank(y)
       \/ Rank(x) = 0 /\ Rank(y) = 0 /\ Val(x) < Val(y)
FGt(x, y) == FLt(y, x)
FEq(x, y) ==
    /\ ~IsNaN(x) /\ ~IsNaN(y)
    /\ Rank(x) = Rank(y)
    /\ (Rank(x) = 0 => Val(x) = Val(y))
FLe(x, y) == FLt(x, y) \/ FEq(x, y)

\* f64::total_cmp: -NaN < -inf < negative < -0 < +0 < positive < +inf < +NaN
TotalKey(x) ==
    LET mag == IF IsNaN(x) THEN 3 ELSE IF IsInf(x) THEN 2 ELSE IF x.m > 0 THEN 1 ELSE 0
    IN IF x.neg THEN <<-mag - 1, -x.m>> ELSE <<mag, x.m>>
TotalLess(x, y) ==
    LET a == TotalKey(x)
        b == TotalKey(y)
    IN a[1] < b[1] \/ (a[1] = b[1] /\ a[2] < b[2])


\* f64::min / f64::max as the bounding-box merge uses them (a NaN side is ignored)
FMin(x, y) == IF IsNaN(x) THEN y ELSE IF FLt(y, x) THEN y ELSE x
FMax(x, y) == IF IsNaN(x) THEN y ELSE IF FGt(y, x) THEN y ELSE x

\* std::f64::consts::PI, in units
PI == 3142
FPi == F(PI)

\* atan of q units, 0 <= q <= SCALE, in units: q*pi/4 + 0.273*q*(1-q)
Atan01(q) == (q * PI) \div (4 * SCALE) + (273 * q * (SCALE - q)) \div (SCALE * SCALE)

\* f64::atan2: y.atan2(x), the angle of the point (x, y), with the sign of y
FAtan2(y, x) ==
    IF IsNaN(y) THEN y
    ELSE IF IsNaN(x) THEN x
    ELSE LET half == PI \div 2
             angle ==
                 IF IsInf(y) /\ IsInf(x) THEN (IF x.neg THEN 3 * (PI \div 4) ELSE PI \div 4)
                 ELSE IF IsInf(y) THEN half
                 ELSE IF IsInf(x) \/ y.m = 0 THEN (IF x.neg THEN PI ELSE 0)
                 ELSE LET lo == IF y.m < x.m THEN y.m ELSE x.m
                          hi == IF y.m < x.m THEN x.m ELSE y.m
                          a == Atan01((lo * SCALE) \div hi)
                          b == IF y.m > x.m THEN half - a ELSE a
                      IN IF x.neg THEN PI - b ELSE b
         IN [c |-> "fin", neg |-> y.neg, m |-> angle]

\* f64::acos: NaN outside [-1, 1], else the angle in [0, pi]
FAcos(y) ==
    IF IsNaN(y) THEN y
    ELSE IF IsInf(y) \/ y.m > SCALE THEN DefaultNaN
    ELSE FAtan2(FSqrt(FSub(Lit(1), FMul(y, y))), y)

(***************************************************************************)
(* Vec3 / Point3 / Color (crate::vec3) and AABB (crate::bb)                *)
(***************************************************************************)
Vec3(x, y, z) == [x |-> x, y |-> y, z |-> z]
\* the vector of the integer coordinates i, j, k
V(i, j, k) == Vec3(Lit(i), Lit(j), Lit(k))
VZero == V(0, 0, 0)
VAdd(a, b) == Vec3(FAdd(a.x, b.x), FAdd(a.y, b.y), FAdd(a.z, b.z))
VSub(a, b) == Vec3(FSub(a.x, b.x), FSub(a.y, b.y), FSub(a.z, b.z))
VNeg(a) == Vec3(FNeg(a.x), FNeg(a.y), FNeg(a.z))
\* t * v, a scalar times a vector
VScale(t, a) == Vec3(FMul(t, a.x), FMul(t, a.y), FMul(t, a.z))
\* v / t
VDiv(a, t) == Vec3(FDiv(a.x, t), FDiv(a.y, t), FDiv(a.z, t))
\* a * b, component-wise
VMul(a, b) == Vec3(FMul(a.x, b.x), FMul(a.y, b.y), FMul(a.z, b.z))
Dot(a, b) == FAdd(FAdd(FMul(a.x, b.x), FMul(a.y, b.y)), FMul(a.z, b.z))
Cross(a, b) ==
    Vec3(FSub(FMul(a.y, b.z), FMul(a.z, b.y)),
         FSub(FMul(a.z, b.x), FMul(a.x, b.z)),
         FSub(FMul(a.x, b.y), FMul(a.y, b.x)))
LengthSquared(a) == Dot(a, a)
Length(a) == FSqrt(LengthSquared(a))
Unit(a) == VDiv(a, Length(a))
VecHasNaN(a) == IsNaN(a.x) \/ IsNaN(a.y) \/ IsNaN(a.z)
VecFinite(a) == IsFinite(a.x) /\ IsFinite(a.y) /\ IsFinite(a.z)

\* AABB::new
AABB(lo, hi) == [min |-> lo, max |-> hi]
\* AABB::merge: the smallest box containing both
Merge(a, b) ==
    AABB(Vec3(FMin(a.min.x, b.min.x), FMin(a.min.y, b.min.y), FMin(a.min.z, b.min.z)),
         Vec3(FMax(a.max.x, b.max.x), FMax(a.max.y, b.max.y), FMax(a.max.z, b.max.z)))

\* Option<T>: None, or Some(v)
None == <<>>
Some(v) == <<v>>
IsSome(o) == Len(o) = 1
IsNone(o) == Len(o) = 0
Get(o) == o[1]

(***************************************************************************)
(* Ray (src/src/ray.rs)                                                    *)
(***************************************************************************)
\* Ray::with_timing
Ray(origin, direction, time) == [origin |-> origin, direction |-> direction, time |-> time]
\* Ray::at
At(r, t) == VAdd(r.origin, VScale(t, r.direction))

(***************************************************************************)
(* HitRecord and the primitives (src/src/objects.rs)                       *)
(***************************************************************************)
\* HitRecord::new
HitRecord(t, u, v, hit_point, normal, front_face, material) ==
    [t |-> t, u |-> u, v |-> v, hit_point |-> hit_point, normal |-> normal,
     front_face |-> front_face, material |-> material]

\* Sphere::new
Sphere(center, radius, material) ==
    [kind |-> "Sphere", center |-> center, radius |-> radius, material |-> material]
\* MovingSphere::new
MovingSphere(start_center, end_center, start_time, end_time, radius, material) ==
    [kind |-> "MovingSphere", start_center |-> start_center, end_center |-> end_center,
     start_time |-> start_time, end_time |-> end_time, radius |-> radius,
     material |-> material]
\* XyPlane::new
XyPlane(x0, y0, x1, y1, k, material) ==
    [kind |-> "XyPlane", x0 |-> x0, x1 |-> x1, y0 |-> y0, y1 |-> y1, k |-> k,
     material |-> material]

\* Sphere::get_uv and MovingSphere::get_uv (the same text twice)
get_uv(p) ==
    LET theta == FNeg(FAcos(p.y))
        phi == FAdd(FNeg(FAtan2(p.z, p.x)), FPi)
        u == FDiv(phi, FMul(Lit(2), FPi))
        v == FDiv(theta, FPi)
    IN <<u, v>>

\* t < min || t > max
OutOfRange(t, min, max) == FLt(t, min) \/ FGt(t, max)

\* a faulty root selection, which tries the farther root first: C9 must reject it
SphereRootFarFirst(half_b, inner, a, min, max) ==
    IF FLt(inner, Lit(0)) THEN None
    ELSE LET t1 == FDiv(FSub(FNeg(half_b), FSqrt(inner)), a)
             t2 == FDiv(FAdd(FNeg(half_b), FSqrt(inner)), a)
         IN IF OutOfRange(t2, min, max)
            THEN (IF OutOfRange(t1, min, max) THEN None ELSE Some(t1))
            ELSE Some(t2)

\* the root the sphere test keeps: Some(t), or None when both roots are out of range
SphereRoot(half_b, inner, a, min, max) ==
    IF FLt(inner, Lit(0)) THEN None
    ELSE LET t1 == FDiv(FSub(FNeg(half_b), FSqrt(inner)), a)
             t2 == FDiv(FAdd(FNeg(half_b), FSqrt(inner)), a)
         IN IF OutOfRange(t1, min, max)
            THEN (IF OutOfRange(t2, min, max) THEN None ELSE Some(t2))
            ELSE Some(t1)

\* the front/back rule: <<normal, front_face>>
SphereFace(out_normal, direction) ==
    IF FGt(Dot(out_normal, direction), Lit(0))
    THEN <<VNeg(out_normal), FALSE>>
    ELSE <<out_normal, TRUE>>

\* the vector Sphere::hit hands to get_uv
SphereUvPoint(normal, out_normal) == normal

\* Hittable for Sphere: hit
SphereHit(s, r, min, max) ==
    LET oc == VSub(r.origin, s.center)
        c == FSub(LengthSquared(oc), FMul(s.radius, s.radius))
        half_b == Dot(r.direction, oc)
        a == LengthSquared(r.direction)
        inner == FSub(FMul(half_b, half_b), FMul(a, c))
        root == SphereRoot(half_b, inner, a, min, max)
    IN IF IsNone(root) THEN None
       ELSE LET t == Get(root)
                hit_point == At(r, t)
                out_normal == Unit(VSub(hit_point, s.center))
                face == SphereFace(out_normal, r.direction)
                uv == get_uv(SphereUvPoint(face[1], out_normal))
            IN Some(HitRecord(t, uv[1], uv[2], hit_point, face[1], face[2], s.material))

\* Hittable for Sphere: bounding_box
SphereBoundingBox(s) ==
    Some(AABB(VSub(s.center, Vec3(s.radius, s.radius, s.radius)),
              VAdd(s.center, Vec3(s.radius, s.radius, s.radius))))

\* MovingSphere::moving_center
moving_center(s, time) ==
    VAdd(s.start_center,
         VScale(FDiv(FSub(time, s.start_time), FSub(s.end_time, s.start_time)),
                VSub(s.end_center, s.start_center)))

\* the root the moving-sphere test keeps
MovingSphereRoot(half_b, inner, a, min, max) ==
    IF FLt(inner, Lit(0)) THEN None
    ELSE LET t1 == FDiv(FSub(FNeg(half_b), FSqrt(inner)), a)
             t2 == FDiv(FAdd(FNeg(half_b), FSqrt(inner)), a)
         IN IF OutOfRange(t1, min, max)
            THEN (IF OutOfRange(t2, min, max) THEN None ELSE Some(t2))
            ELSE Some(t1)

\* the front/back rule of MovingSphere::hit
MovingSphereFace(out_normal, direction) ==
    IF FGt(Dot(out_normal, direction), Lit(0))
    THEN <<VNeg(out_normal), FALSE>>
    ELSE <<out_normal, TRUE>>

\* Hittable for MovingSphere: hit
MovingSphereHit(s, r, min, max) ==
    LET hit_time == r.time
    IN IF FLt(hit_time, s.start_time) \/ FGt(hit_time, s.end_time) THEN None
       ELSE LET center == moving_center(s, hit_time)
                oc == VSub(r.origin, center)
                c == FSub(LengthSquared(oc), FMul(s.radius, s.radius))
                half_b == Dot(r.direction, oc)
                a == LengthSquared(r.direction)
                inner == FSub(FMul(half_b, half_b), FMul(a, c))
                root == MovingSphereRoot(half_b, inner, a, min, max)
            IN IF IsNone(root) THEN None
               ELSE LET t == Get(root)
                        hit_point == At(r, t)
                        out_normal == Unit(VSub(hit_point, center))
                        face == MovingSphereFace(out_normal, r.direction)
                        uv == get_uv(out_normal)
                    IN Some(HitRecord(t, uv[1], uv[2], hit_point, face[1], face[2],
                                      s.material))

\* Hittable for MovingSphere: bounding_box
MovingSphereBoundingBox(s, start_time, end_time) ==
    LET rad == Vec3(s.radius, s.radius, s.radius)
        start_ball == AABB(VSub(moving_center(s, start_time), rad),
                           VAdd(moving_center(s, start_time), rad))
        end_ball == AABB(VSub(moving_center(s, end_time), rad),
                         VAdd(moving_center(s, end_time), rad))
    IN Some(Merge(start_ball, end_ball))

\* XyPlane::THICKNESS, 0.0001, below the resolution of the model: the smallest unit
THICKNESS == F(1)

\* Hittable for XyPlane: bounding_box
XyPlaneBoundingBox(s) ==
    Some(AABB(Vec3(s.x0, s.y0, FSub(s.k, THICKNESS)),
              Vec3(s.x1, s.y1, FAdd(s.k, THICKNESS))))

\* Hittable for XyPlane: hit
XyPlaneHit(s, r, min, max) ==
    LET unit_ray == Unit(r.direction)
        p == Vec3(s.x0, s.y0, s.k)
        dir == VSub(p, r.origin)
        u == Vec3(FSub(s.x1, s.x0), Lit(0), s.k)
        v == Vec3(Lit(0), FSub(s.y1, s.y0), s.k)
        normal0 == Unit(Cross(u, v))
        normal == IF FLt(Dot(normal0, dir), Lit(0)) THEN VNeg(normal0) ELSE normal0
        perp == VScale(Dot(dir, normal), dir)
        cos == Dot(unit_ray, normal)
        t == FDiv(Length(perp), cos)
        hit == VAdd(VScale(t, unit_ray), r.origin)
    IN IF FLt(hit.x, s.x0) \/ FGt(hit.x, s.x1) \/ FLt(hit.y, s.y0) \/ FGt(hit.y, s.y1)
       THEN None
       ELSE Some(HitRecord(t,
                           FDiv(FSub(hit.x, s.x0), FSub(s.x1, s.x0)),
                           FDiv(FSub(hit.y, s.y0), FSub(s.y1, s.y0)),
                           hit, normal, TRUE, s.material))

\* dyn Hittable: the hit of a member of the world
MemberHit(e, r, min, max) ==
    IF e.kind = "Sphere" THEN SphereHit(e, r, min, max)
    ELSE IF e.kind = "MovingSphere" THEN MovingSphereHit(e, r, min, max)
    ELSE XyPlaneHit(e, r, min, max)

\* dyn Hittable: the bounding_box of a member of the world
MemberBoundingBox(e, start_time, end_time) ==
    IF e.kind = "Sphere" THEN SphereBoundingBox(e)
    ELSE IF e.kind = "MovingSphere" THEN MovingSphereBoundingBox(e, start_time, end_time)
    ELSE XyPlaneBoundingBox(e)

(***************************************************************************)
(* Hittable for WorldType (src/src/objects.rs)                             *)
(***************************************************************************)
\* self.iter().filter_map(|e| e.hit(ray, min, max)): the records, in the world's order
RECURSIVE FilterMapHit(_, _, _, _)
FilterMapHit(w, r, min, max) ==
    IF w = <<>> THEN <<>>
    ELSE MemberHit(Head(w), r, min, max) \o FilterMapHit(Tail(w), r, min, max)

\* the comparison min_by is given: whether a.t.total_cmp(&b.t) is Greater
CmpGreater(a, b) == TotalLess(b.t, a.t)

\* Iterator::min_by from the accumulator best: a later record replaces it only
\* when the comparison says best is Greater
RECURSIVE MinByFrom(_, _)
MinByFrom(best, rest) ==
    IF rest = <<>> THEN best
    ELSE MinByFrom(IF CmpGreater(best, Head(rest)) THEN Head(rest) ELSE best, Tail(rest))

MinBy(records) ==
    IF records = <<>> THEN None ELSE Some(MinByFrom(Head(records), Tail(records)))

\* Hittable for WorldType: hit
WorldHit(w, r, min, max) == MinBy(FilterMapHit(w, r, min, max))

\* the box the accumulation of WorldType::bounding_box starts from
WorldBoxSeed == AABB(VZero, VZero)

RECURSIVE WorldBoxFrom(_, _, _, _)
WorldBoxFrom(result_box, items, start_time, end_time) ==
    IF items = <<>> THEN result_box
    ELSE LET new_box == MemberBoundingBox(Head(items), start_time, end_time)
         IN WorldBoxFrom(IF IsNone(new_box) THEN result_box
                         ELSE Merge(result_box, Get(new_box)),
                         Tail(items), start_time, end_time)

\* Hittable for WorldType: bounding_box
WorldBoundingBox(w, start_time, end_time) ==
    IF Len(w) = 0 THEN None
    ELSE Some(WorldBoxFrom(WorldBoxSeed, w, start_time, end_time))

(***************************************************************************)
(* The inputs drawn for the calls                                          *)
(***************************************************************************)
Primitives ==
    { Sphere(V(0, 0, 0), Lit(1), "unit"),
      Sphere(V(0, 0, -1), Lit(1), "near"),
      Sphere(V(3, 0, 0), Lit(1), "far"),
      MovingSphere(V(0, 0, 0), V(0, 0, 0), Lit(0), Lit(2), Lit(1), "still"),
      MovingSphere(V(0, 0, 0), V(2, 0, 0), Lit(0), Lit(2), Lit(1), "moving"),
      XyPlane(Lit(-1), Lit(-1), Lit(1), Lit(1), Lit(0), "plane") }

\* the worlds of at most n members
RECURSIVE WorldsUpTo(_)
WorldsUpTo(n) ==
    IF n = 0 THEN {<<>>}
    ELSE LET shorter == WorldsUpTo(n - 1)
         IN shorter \cup {Append(w, e) : w \in {x \in shorter : Len(x) = n - 1}, e \in Primitives}

Origins == {V(0, 0, 0), V(0, 0, -2), V(1, 0, -2)}
Directions == {V(0, 0, 1), V(0, 0, -1), V(1, 0, 0), V(0, 0, 0), V(1, 0, 1)}
Times == {Lit(1), Lit(3)}
Rays == {Ray(o, d, t) : o \in Origins, d \in Directions, t \in Times}
\* the rays a world of several members is probed with: those from the z axis,
\* along the axes, inside the time window of the moving spheres
AggregateRays ==
    {r \in Rays : /\ r.origin \in {V(0, 0, 0), V(0, 0, -2)}
                  /\ r.direction \in {V(0, 0, 1), V(0, 0, -1), V(1, 0, 0)}
                  /\ r.time = Lit(1)}
\* the lower bound ray_color queries with, 0.001
T_MIN == F(1)
Intervals == {<<T_MIN, PInf>>, <<Lit(0), Lit(10)>>, <<Lit(2), Lit(10)>>}
\* the time windows bounding_box is asked for
Windows == {<<Lit(0), Lit(2)>>, <<Lit(1), Lit(1)>>}

\* the rays the hits of the world w and of its members are probed with
ProbeRays(w) == IF Len(w) <= 1 THEN Rays ELSE AggregateRays

NoCall == [op |-> "none", idx |-> 0, window |-> <<>>]

ColorIdle ==
    /\ pc = "idle"
    /\ budget = 0
    /\ background = VZero
    /\ stack = <<>>
    /\ ret = VZero
    /\ bounces = <<>>
    /\ hitCalls = 0
    /\ matCalls = 0
    /\ invocations = 0

\* the rays of non-zero direction are drawn first, those of zero direction last
Init ==
    /\ \/ /\ world \in WorldsUpTo(MaxWorldLen)
          /\ ray \in {r \in ProbeRays(world) : r.direction # VZero}
       \/ /\ world \in WorldsUpTo(MaxWorldLen)
          /\ ray \in {r \in ProbeRays(world) : r.direction = VZero}
    /\ nanNeg \in BOOLEAN
    /\ \E iv \in Intervals : tmin = iv[1] /\ tmax = iv[2]
    /\ call = NoCall
    /\ rec = None
    /\ bbox = None
    /\ ColorIdle

\* a caller invokes hit on member i, a Sphere
CallSphereHit(i) ==
    /\ call = NoCall
    /\ world[i].kind = "Sphere"
    /\ rec' = SphereHit(world[i], ray, tmin, tmax)
    /\ call' = [op |-> "Sphere.hit", idx |-> i, window |-> <<>>]
    /\ UNCHANGED <<nanNeg, world, ray, tmin, tmax, bbox, colorVars>>

\* a caller invokes hit on member i, a MovingSphere
CallMovingSphereHit(i) ==
    /\ call = NoCall
    /\ world[i].kind = "MovingSphere"
    /\ rec' = MovingSphereHit(world[i], ray, tmin, tmax)
    /\ call' = [op |-> "MovingSphere.hit", idx |-> i, window |-> <<>>]
    /\ UNCHANGED <<nanNeg, world, ray, tmin, tmax, bbox, colorVars>>

\* a caller invokes hit on member i, an XyPlane
CallXyPlaneHit(i) ==
    /\ call = NoCall
    /\ world[i].kind = "XyPlane"
    /\ rec' = XyPlaneHit(world[i], ray, tmin, tmax)
    /\ call' = [op |-> "XyPlane.hit", idx |-> i, window |-> <<>>]
    /\ UNCHANGED <<nanNeg, world, ray, tmin, tmax, bbox, colorVars>>

\* a caller invokes hit on the world
CallWorldHit ==
    /\ call = NoCall
    /\ rec' = WorldHit(world, ray, tmin, tmax)
    /\ call' = [op |-> "World.hit", idx |-> 0, window |-> <<>>]
    /\ UNCHANGED <<nanNeg, world, ray, tmin, tmax, bbox, colorVars>>

\* a caller invokes bounding_box on the world, for the time window win
CallWorldBoundingBox(win) ==
    /\ call = NoCall
    /\ bbox' = WorldBoundingBox(world, win[1], win[2])
    /\ call' = [op |-> "World.bounding_box", idx |-> 0, window |-> win]
    /\ UNCHANGED <<nanNeg, world, ray, tmin, tmax, rec, colorVars>>

Next ==
    \/ \E i \in 1..Len(world) : CallSphereHit(i)
    \/ \E i \in 1..Len(world) : CallMovingSphereHit(i)
    \/ \E i \in 1..Len(world) : CallXyPlaneHit(i)
    \/ CallWorldHit
    \/ \E win \in Windows : CallWorldBoundingBox(win)

Spec == Init /\ [][Next]_vars

(***************************************************************************)
(* ray_color (src/src/ray.rs)                                              *)
(*                                                                         *)
(* The recursion is unfolded into a stack of frames, one per invocation    *)
(* that has been entered and has not returned.  The materials are outside  *)
(* the modelled code: emit returns any colour of EmitColors, scatter       *)
(* returns None or any attenuation of Attenuations with any ray of         *)
(* ScatterRays.                                                            *)
(***************************************************************************)
EmitColors == {VZero, Vec3(Lit(1), F(500), Lit(0))}
Attenuations == {Vec3(F(500), Lit(1), Lit(2))}
ScatterRays == {Ray(V(0, 0, -2), V(0, 0, 1), Lit(1)), Ray(V(0, 0, -2), V(0, 0, -1), Lit(1))}
Backgrounds == {VZero, Vec3(F(500), F(700), Lit(1))}
ColorWorlds ==
    { <<>>,
      <<Sphere(V(0, 0, 0), Lit(1), "unit")>>,
      <<Sphere(V(0, 0, 0), Lit(1), "unit"),
        XyPlane(Lit(-1), Lit(-1), Lit(1), Lit(1), Lit(0), "plane")>> }

\* the frame of an invocation: its arguments, and what it holds across the nested call
Frame(r, iter) == [ray |-> r, iter |-> iter, emitted |-> VZero, color |-> VZero]
\* what the world and the material answered to an invocation
Bounce(f, outcome, emitted, color, out_ray) ==
    [ray |-> f.ray, iter |-> f.iter, outcome |-> outcome, emitted |-> emitted,
     color |-> color, out_ray |-> out_ray]

Top == stack[Len(stack)]
Pop == SubSeq(stack, 1, Len(stack) - 1)
\* where control goes once the innermost invocation has returned
AfterReturn(rest) == IF rest = <<>> THEN "done" ELSE "return"

\* a faulty floor test, which lets a budget of 0 through: C6 must reject it
IterExhaustedBelowZero(iter) == iter < 0
\* a faulty nested budget, which is not decremented: C5 must reject it
NextIterKept(iter) == iter
\* a faulty combination, which drops the attenuation: C7 must reject it
CombineUnattenuated(emitted, inner, color) == VAdd(emitted, inner)

\* if iter <= 0
IterExhausted(iter) == iter <= 0
\* Color::zero(), returned at the recursion floor
FloorColor == VZero
\* world.hit(&ray, 0.001, f64::INFINITY)
RayColorHit(w, r) == WorldHit(w, r, T_MIN, PInf)
\* iter - 1, the budget handed to the nested call
NextIter(iter) == iter - 1
\* emitted + ray_color(..) * color
Combine(emitted, inner, color) == VAdd(emitted, VMul(inner, color))
\* the value returned when nothing is hit
MissColor(bg) == bg

ColorInit ==
    /\ nanNeg \in BOOLEAN
    /\ world \in ColorWorlds
    /\ ray \in ScatterRays
    /\ tmin = T_MIN
    /\ tmax = PInf
    /\ call = NoCall
    /\ rec = None
    /\ bbox = None
    /\ pc = "enter"
    /\ budget \in 0..MaxDepth
    /\ background \in Backgrounds
    /\ stack = <<Frame(ray, budget)>>
    /\ ret = VZero
    /\ bounces = <<>>
    /\ hitCalls = 0
    /\ matCalls = 0
    /\ invocations = 1

\* the innermost invocation finds its budget exhausted and returns black
RcFloor ==
    /\ pc = "enter"
    /\ IterExhausted(Top.iter)
    /\ ret' = FloorColor
    /\ stack' = Pop
    /\ pc' = AfterReturn(Pop)
    /\ bounces' = Append(bounces, Bounce(Top, "floor", VZero, VZero, Top.ray))
    /\ UNCHANGED <<nanNeg, geomVars, budget, background, hitCalls, matCalls, invocations>>

\* the innermost invocation queries the world, which answers hit = None, and
\* returns the background
RcMiss(hit) ==
    /\ pc = "enter"
    /\ ~IterExhausted(Top.iter)
    /\ IsNone(hit)
    /\ hitCalls' = hitCalls + 1
    /\ ret' = MissColor(background)
    /\ stack' = Pop
    /\ pc' = AfterReturn(Pop)
    /\ bounces' = Append(bounces, Bounce(Top, "miss", VZero, VZero, Top.ray))
    /\ UNCHANGED <<nanNeg, geomVars, budget, background, matCalls, invocations>>

\* the world answers hit = Some(record), and the material of the record emits
\* emitted and absorbs the ray
RcAbsorb(hit, emitted) ==
    /\ pc = "enter"
    /\ ~IterExhausted(Top.iter)
    /\ IsSome(hit)
    /\ hitCalls' = hitCalls + 1
    /\ matCalls' = matCalls + 2
    /\ ret' = emitted
    /\ stack' = Pop
    /\ pc' = AfterReturn(Pop)
    /\ bounces' = Append(bounces, Bounce(Top, "absorb", emitted, VZero, Top.ray))
    /\ UNCHANGED <<nanNeg, geomVars, budget, background, invocations>>

\* the world answers hit = Some(record), and the material of the record emits
\* emitted and scatters out_ray with the attenuation color: the invocation
\* calls ray_color on the scattered ray
RcScatter(hit, emitted, color, out_ray) ==
    /\ pc = "enter"
    /\ ~IterExhausted(Top.iter)
    /\ IsSome(hit)
    /\ hitCalls' = hitCalls + 1
    /\ matCalls' = matCalls + 2
    /\ stack' = Append([stack EXCEPT ![Len(stack)].emitted = emitted,
                                     ![Len(stack)].color = color],
                       Frame(out_ray, NextIter(Top.iter)))
    /\ invocations' = invocations + 1
    /\ pc' = "enter"
    /\ bounces' = Append(bounces, Bounce(Top, "scatter", emitted, color, out_ray))
    /\ UNCHANGED <<nanNeg, geomVars, budget, background, ret>>

\* the nested call has returned ret: the caller combines it and returns
RcResume ==
    /\ pc = "return"
    /\ ret' = Combine(Top.emitted, ret, Top.color)
    /\ stack' = Pop
    /\ pc' = AfterReturn(Pop)
    /\ UNCHANGED <<nanNeg, geomVars, budget, background, bounces, hitCalls, matCalls,
                   invocations>>

\* ray_color over the world of the model: hit is answered by WorldType::hit
ColorNext ==
    \/ RcFloor
    \/ RcMiss(RayColorHit(world, Top.ray))
    \/ \E e \in EmitColors : RcAbsorb(RayColorHit(world, Top.ray), e)
    \/ \E e \in EmitColors, c \in Attenuations, r \in ScatterRays :
          RcScatter(RayColorHit(world, Top.ray), e, c, r)
    \/ RcResume

ColorSpec == ColorInit /\ [][ColorNext]_vars

\* what a world may answer to hit, whatever its members
HitAnswers == {None, Some(HitRecord(T_MIN, Lit(0), Lit(0), VZero, VZero, TRUE, "any"))}

\* ray_color over any world: hit is answered by None or by a record, at will
AnyWorldNext ==
    \/ RcFloor
    \/ \E h \in HitAnswers : RcMiss(h)
    \/ \E h \in HitAnswers, e \in EmitColors : RcAbsorb(h, e)
    \/ \E h \in HitAnswers, e \in EmitColors, c \in Attenuations, r \in ScatterRays :
          RcScatter(h, e, c, r)
    \/ RcResume

\* ray_color is sequential code: a step that can be taken is taken
AnyWorldFairSpec == ColorInit /\ [][AnyWorldNext]_vars /\ WF_vars(AnyWorldNext)

(***************************************************************************)
(* The claims                                                              *)
(***************************************************************************)
HitOps == {"Sphere.hit", "MovingSphere.hit", "XyPlane.hit", "World.hit"}
SphereOps == {"Sphere.hit", "MovingSphere.hit"}
\* min <= t <= max
InRange(t, min, max) == FLe(min, t) /\ FLe(t, max)
\* what each member of the world returns for the current ray and interval
MemberRecords == [i \in 1..Len(world) |-> MemberHit(world[i], ray, tmin, tmax)]

\* C1: every HitRecord returned by hit(ray, min, max), of a primitive or of
\* the world, has min <= t <= max.
C1_HitWithinInterval ==
    (call.op \in HitOps /\ IsSome(rec)) => InRange(Get(rec).t, tmin, tmax)

\* C2: World.hit returns none exactly when no member returns a record;
\* otherwise it returns a member's record than whose t no member's record
\* has a smaller t, and of the members whose t equals that t the first in
\* the world's order is the one returned.
C2_WorldHitNearestFirst ==
    call.op = "World.hit" =>
        LET m == MemberRecords
            hitters == {i \in 1..Len(world) : IsSome(m[i])}
        IN /\ IsNone(rec) <=> hitters = {}
           /\ IsSome(rec) =>
                 /\ \A j \in hitters : ~FLt(Get(m[j]).t, Get(rec).t)
                 /\ \E i \in hitters :
                       /\ rec = m[i]
                       /\ \A j \in hitters : j < i => ~FEq(Get(m[j]).t, Get(rec).t)

\* the merge of the boxes, starting from the first one
RECURSIVE MergeAll(_, _)
MergeAll(acc, boxes) ==
    IF boxes = <<>> THEN acc ELSE MergeAll(Merge(acc, Head(boxes)), Tail(boxes))
\* the boxes the members return for the window, in the world's order
RECURSIVE MemberBoxes(_, _)
MemberBoxes(w, win) ==
    IF w = <<>> THEN <<>>
    ELSE MemberBoundingBox(Head(w), win[1], win[2]) \o MemberBoxes(Tail(w), win)

\* C3: World.bounding_box returns none for an empty world, and otherwise
\* exactly the merge of the boxes its members return, accumulated from the
\* first member box and not from a zero box at the origin.
C3_WorldBoxIsMergeOfMembers ==
    call.op = "World.bounding_box" =>
        LET boxes == MemberBoxes(world, call.window)
        IN /\ world = <<>> => bbox = None
           /\ (world # <<>> /\ boxes # <<>>) =>
                 bbox = Some(MergeAll(Head(boxes), Tail(boxes)))

\* the centre the sphere test of the current call is made against
CallCenter ==
    LET s == world[call.idx]
    IN IF s.kind = "Sphere" THEN s.center ELSE moving_center(s, ray.time)

\* C4: in every HitRecord of Sphere.hit and MovingSphere.hit, front_face is
\* true iff the dot product of the ray direction and the raw outward normal
\* is strictly negative, and the stored normal is the raw outward normal
\* when front_face is true and its negation otherwise.
C4_FrontFaceIffNegativeDot ==
    (call.op \in SphereOps /\ IsSome(rec)) =>
        LET r == Get(rec)
            out_normal == Unit(VSub(r.hit_point, CallCenter))
        IN /\ r.front_face <=> FLt(Dot(ray.direction, out_normal), Lit(0))
           /\ r.normal = IF r.front_face THEN out_normal ELSE VNeg(out_normal)

\* every frame holds the budget of the outermost call less its depth
FramesCountDown == \A k \in 1..Len(stack) : stack[k].iter = budget - (k - 1)

C5_Bounded ==
    /\ FramesCountDown
    /\ invocations <= budget + 1
    /\ hitCalls <= budget

\* C5: ray_color terminates for every depth budget, whatever the world and
\* the materials return: each nested call gets the budget less one, so at
\* most budget + 1 invocations are entered and at most budget world.hit
\* calls are made.
C5_Terminates == [](pc # "idle" => C5_Bounded) /\ <>(pc = "done")

\* a chain of scatters that uses the whole budget
C5_Witness ==
    /\ pc = "done"
    /\ budget = MaxDepth
    /\ invocations = budget + 1
    /\ hitCalls = budget

\* C6: ray_color with depth budget 0 returns the zero colour without
\* querying the world's hit or any material.
C6_ZeroBudgetIsBlack ==
    (pc # "idle" /\ budget = 0) =>
        /\ hitCalls = 0
        /\ matCalls = 0
        /\ pc = "done" => ret = VZero

C6_Witness ==
    /\ pc = "done"
    /\ budget = 0
    /\ background # VZero
    /\ world # <<>>

\* the reference recurrence over what the world and the materials answered
\* to the k-th invocation and to those nested in it
RECURSIVE Reference(_, _)
Reference(k, depth) ==
    IF depth = 0 THEN VZero
    ELSE LET b == bounces[k]
         IN IF b.outcome = "miss" THEN background
            ELSE IF b.outcome = "absorb" THEN b.emitted
            ELSE VAdd(b.emitted, VMul(b.color, Reference(k + 1, depth - 1)))

\* the k-th invocation was made on the scattered ray of the one before, with
\* its budget less one, and was answered by the world's hit over (0.001, +inf)
AnsweredByWorld(k) ==
    LET b == bounces[k]
        hit == WorldHit(world, b.ray, F(1), PInf)
    IN /\ b.ray = IF k = 1 THEN ray ELSE bounces[k - 1].out_ray
       /\ b.iter = budget - (k - 1)
       /\ b.outcome = "floor" <=> b.iter = 0
       /\ b.outcome = "miss" => IsNone(hit)
       /\ b.outcome \in {"absorb", "scatter"} => IsSome(hit)

\* C7: for a depth budget >= 1, ray_color is the reference recurrence: the
\* background when world.hit(ray, 0.001, +inf) is none, the emitted colour
\* when the material does not scatter, and emitted + attenuation *
\* ray_color(scattered, world, budget - 1, background) when it does.
C7_ReferenceRecurrence ==
    (pc = "done" /\ budget >= 1) =>
        /\ \A k \in 1..Len(bounces) : AnsweredByWorld(k)
        /\ ret = Reference(1, budget)

C7_Witness ==
    /\ pc = "done"
    /\ Len(bounces) >= 3
    /\ bounces[1].outcome = "scatter"
    /\ bounces[1].emitted # VZero
    /\ bounces[2].outcome = "scatter"
    /\ bounces[3].outcome = "miss"
    /\ background # VZero

\* the cosine XyPlane::hit divides by
PlaneCos(s, r) ==
    LET dir == VSub(Vec3(s.x0, s.y0, s.k), r.origin)
        n == Unit(Cross(Vec3(FSub(s.x1, s.x0), Lit(0), s.k),
                        Vec3(Lit(0), FSub(s.y1, s.y0), s.k)))
        normal == IF FLt(Dot(n, dir), Lit(0)) THEN VNeg(n) ELSE n
    IN Dot(Unit(r.direction), normal)

\* C8: Sphere.hit and MovingSphere.hit return none for a ray of zero-length
\* direction, XyPlane.hit returns none for a ray parallel to the plane, and
\* no HitRecord carries a NaN or infinite t or hit point.
C8_DegenerateIsNoHit ==
    /\ (call.op \in SphereOps /\ IsZero(LengthSquared(ray.direction))) => IsNone(rec)
    /\ (call.op = "XyPlane.hit" /\ IsZero(PlaneCos(world[call.idx], ray))) => IsNone(rec)
    /\ (call.op \in HitOps /\ IsSome(rec)) =>
          IsFinite(Get(rec).t) /\ VecFinite(Get(rec).hit_point)

\* the quadratic of the sphere test of the current call
Quadratic ==
    LET s == world[call.idx]
        oc == VSub(ray.origin, CallCenter)
        a == LengthSquared(ray.direction)
        half_b == Dot(ray.direction, oc)
        c == FSub(LengthSquared(oc), FMul(s.radius, s.radius))
        disc == FSub(FMul(half_b, half_b), FMul(a, c))
    IN [a |-> a, disc |-> disc,
        near |-> FDiv(FSub(FNeg(half_b), FSqrt(disc)), a),
        far |-> FDiv(FAdd(FNeg(half_b), FSqrt(disc)), a)]

\* the result the claim describes, for the quadratic q
RootRule(q) ==
    /\ FLt(q.disc, Lit(0)) => IsNone(rec)
    /\ ~FLt(q.disc, Lit(0)) =>
          /\ InRange(q.near, tmin, tmax) => (IsSome(rec) /\ Get(rec).t = q.near)
          /\ (~InRange(q.near, tmin, tmax) /\ InRange(q.far, tmin, tmax)) =>
                (IsSome(rec) /\ Get(rec).t = q.far)
          /\ (~InRange(q.near, tmin, tmax) /\ ~InRange(q.far, tmin, tmax)) => IsNone(rec)
    /\ IsSome(rec) =>
          /\ InRange(Get(rec).t, tmin, tmax)
          /\ \A root \in {q.near, q.far} :
                InRange(root, tmin, tmax) => FLe(Get(rec).t, root)

\* whether the time of the ray is in the window of the moving sphere called
InWindow ==
    LET s == world[call.idx]
    IN s.kind = "MovingSphere" => (FLe(s.start_time, ray.time) /\ FLe(ray.time, s.end_time))

\* C9, as stated: for Sphere.hit and MovingSphere.hit on a ray of non-zero
\* direction, a negative discriminant yields none, else the nearer root is
\* returned when it is in [min, max], else the farther root when it is, else
\* none; the returned t is the smallest root inside [min, max].
C9_RootSelection_AsStated ==
    (call.op \in SphereOps /\ ~IsZero(LengthSquared(ray.direction))) => RootRule(Quadratic)

\* C9, amended: the same, for Sphere.hit and for MovingSphere.hit on a ray
\* whose time lies in [start_time, end_time]; outside that window
\* MovingSphere.hit returns none whatever the roots.
C9_RootSelection ==
    /\ (call.op \in SphereOps /\ ~IsZero(LengthSquared(ray.direction)) /\ InWindow) =>
          RootRule(Quadratic)
    /\ (call.op = "MovingSphere.hit" /\ ~InWindow) => IsNone(rec)

\* the nearer root is out of range and the farther one is returned
C9_Witness ==
    /\ call.op \in SphereOps
    /\ ~IsZero(LengthSquared(ray.direction))
    /\ InWindow
    /\ IsSome(rec)
    /\ ~InRange(Quadratic.near, tmin, tmax)
    /\ Get(rec).t = Quadratic.far
    /\ FLt(Quadratic.near, Quadratic.far)

\* C10: a MovingSphere whose start and end centres are equal behaves like
\* the Sphere of that centre, radius and material: on every ray whose time
\* is in the window both hits agree on none/some and on every field of the
\* record, and (u, v) is the spherical formula applied to the normalized
\* (hit_point - center).
C10_StillMovingSphereIsSphere ==
    LET s == world[call.idx]
    IN (/\ call.op = "MovingSphere.hit"
        /\ s.start_center = s.end_center
        /\ InWindow) =>
           LET twin == SphereHit(Sphere(s.start_center, s.radius, s.material),
                                 ray, tmin, tmax)
           IN /\ rec = twin
              /\ IsSome(rec) =>
                    LET uv == get_uv(Unit(VSub(Get(rec).hit_point, s.start_center)))
                    IN /\ Get(rec).u = uv[1] /\ Get(rec).v = uv[2]
                       /\ Get(twin).u = uv[1] /\ Get(twin).v = uv[2]

=============================================================================
